---------------------------- MODULE Spec2Model ----------------------------
(***************************************************************************)
(* A model of data/molecule/molecule.go: the molecule id allocator         *)
(* (nextMoleculeId), the global molecule cache (AllMolecules), molecule    *)
(* creation (New), the molecule's event loop (run) and the cache's Clear   *)
(* and MoleculeWithId.                                                      *)
(*                                                                         *)
(* Every goroutine is a process whose position is a program counter.  The  *)
(* cache is an unsynchronised Go map: a write to it is modelled in two     *)
(* steps (begin, end) so that overlapping accesses are visible, and the    *)
(* outcome of an access that overlapped a write is a nondeterministic      *)
(* choice among what a Go build can produce: the access takes effect, the  *)
(* write is lost, or the runtime stops the process with a fatal error.     *)
(***************************************************************************)
EXTENDS Integers, Sequences, FiniteSets, TLC

\* ------------------------------------------------------------------ bounds

\* Number of calls of New(): the i-th call creates the molecule of slot i.
MaxMols == 2

\* Capacity of a molecule's inChannel.  ReqChanSize is set in another file
\* of the package; the model only needs it to be a fixed positive number.
ReqChanSize == 2

\* Number of external sender goroutines, and of messages they send in all.
NumSenders == 2

MaxSends == 2

\* Number of invocations of Clear().
MaxClears == 1

\* Width of the id counter in the model.  The source's counter is a uint32;
\* the model keeps its wrap-around arithmetic (modulo 2^width) at a reduced
\* width, which the runs that start from a fresh counter do not exhaust.
IdBits == 4

IdModulus == 2 ^ IdBits

\* Largest number of atoms, bonds, rings and ring systems of the molecule
\* whose payload is queried, and the largest atom id in it.
MaxAtoms == 2

MaxBonds == 2

MaxRings == 2

MaxRingSystems == 1

MaxAtomId == 2

Mols == 1 .. MaxMols

Senders == 1 .. NumSenders

\* The process id of the goroutine that calls Clear(); molecule i's
\* goroutine has process id i.
ClearProc == 0

\* A nil *Molecule.
Nil == 0

\* Keys that MoleculeWithId is called with: 0 is never allocated.
LookupKeys == 0 .. MaxMols

ReqExit == "ReqExit"

ReqOther == "ReqOther"

\* The bond types the counting methods are called with.
BondTypes == {"BondTypeSingle", "BondTypeDouble", "BondTypeTriple"}

\* The atom ids in a payload, and those a lookup is called with: one more
\* than any id in the payload, so that some lookup finds nothing.
AtomIds == 1 .. MaxAtomId

QueryIds == 1 .. (MaxAtomId + 1)

\* The sequences of at most n elements of S.
SeqUpTo(S, n) == UNION {[1 .. k -> S] : k \in 0 .. n}

\* No answer has been kept yet.
NoAnswer == [op |-> "none", arg |-> << >>, val |-> 0, fatal |-> FALSE]

\* ------------------------------------------------------------------- state

VARIABLES
    nextId,        \* nextMolId.nextId
    mu,            \* nextMolId.mu: 0 when free, else the slot holding it
    allMolecules,  \* AllMolecules.allMolecules: id -> molecule slot
    writing,       \* processes currently inside a write of the map
    raced,         \* those of them whose write overlapped another write
    mapRaced,      \* two writes of the map have overlapped in this run
    crashed,       \* the runtime stopped the process (fatal map race)
    pc,            \* per molecule slot: position of New() / run()
    id,            \* per molecule slot: mol.id (0 before assignment)
    inChannel,     \* per molecule slot: contents of mol.inChannel
    processed,     \* per molecule slot: calls of processInMessage, in order
    sentLog,       \* per molecule slot: every message enqueued, in order
    issued,        \* the values nextMoleculeId returned, in order of return
    sent,          \* per sender: number of messages sent so far
    clearPc,       \* position of the goroutine running Clear()
    clearCur,      \* Clear's loop variables id, mol
    clearStart,    \* the keys of the map when Clear() was called
    clearSeen,     \* the keys Clear's range has produced
    clearSent,     \* the molecule slots Clear() has sent ReqExit to
    clears,        \* number of invocations of Clear()
    workload,      \* the calls the outside makes in this run: how many
                   \* of New(), of senders, of sends and of Clear(), and
                   \* whether the callers keep the answers they get
    answer,        \* the last answer a caller has kept
    unregAbsent,   \* the molecule slots inside a deferred delete that began
                   \* when their id was already absent from the map
    atoms,         \* the queried molecule's m.atoms
    bonds,         \* the queried molecule's m.bonds
    rings,         \* the queried molecule's m.rings
    ringSystems    \* the queried molecule's m.ringSystems

vars == << nextId, mu, allMolecules, writing, raced, mapRaced, crashed, pc, id,
           inChannel, processed, sentLog, issued, sent, clearPc, clearCur,
           clearStart, clearSeen, clearSent, clears, workload, answer,
           unregAbsent, atoms, bonds, rings, ringSystems >>

newVars == << nextId, mu, id, issued >>

mapVars == << allMolecules, writing, raced, mapRaced, crashed >>

chanVars == << inChannel, processed, sentLog, sent >>

payloadVars == << atoms, bonds, rings, ringSystems >>

otherVars == << workload, answer, unregAbsent, payloadVars >>

clearVars == << clearPc, clearCur, clearStart, clearSeen, clearSent, clears,
               otherVars >>

\* ----------------------------------------------------------------- helpers

EmptyMap == [k \in {} |-> Nil]

MapPut(m, k, v) == [x \in (DOMAIN m) \cup {k} |-> IF x = k THEN v ELSE m[x]]

MapDelete(m, k) == [x \in (DOMAIN m) \ {k} |-> m[x]]

\* MoleculeWithId answers the molecule with the given id, or nil.
MoleculeWithId(k) == IF k \in DOMAIN allMolecules THEN allMolecules[k] ELSE Nil

ExitMessage == [Request |-> ReqExit, from |-> ClearProc, seq |-> 0]

HasExit(q) == \E n \in 1 .. Len(q) : q[n].Request = ReqExit

\* The messages molecule i has received so far: the channel is first-in
\* first-out, so they are the enqueued messages that are no longer queued.
Received(i) == SubSeq(sentLog[i], 1, Len(sentLog[i]) - Len(inChannel[i]))

RECURSIVE SumTo(_, _)
SumTo(f, n) == IF n = 0 THEN 0 ELSE f[n] + SumTo(f, n - 1)

\* The number of messages the senders have sent so far.
TotalSent == SumTo(sent, NumSenders)

\* ------------------------------------------------------------------- Init

\* The state in which the outside is about to make the calls of workload w,
\* after n earlier calls of New() whose molecules have all terminated and
\* unregistered: the counter stands at n and the values 1 .. n are issued.
StartAfter(w, n) ==
    /\ workload = w
    /\ nextId = n
    /\ mu = 0
    /\ allMolecules = EmptyMap
    /\ writing = {}
    /\ raced = {}
    /\ mapRaced = FALSE
    /\ crashed = FALSE
    /\ pc = [i \in Mols |-> "none"]
    /\ id = [i \in Mols |-> 0]
    /\ inChannel = [i \in Mols |-> << >>]
    /\ processed = [i \in Mols |-> << >>]
    /\ sentLog = [i \in Mols |-> << >>]
    /\ issued = [k \in 1 .. n |-> k]
    /\ sent = [s \in Senders |-> 0]
    /\ clearPc = "idle"
    /\ clearCur = [id |-> 0, mol |-> Nil]
    /\ clearStart = {}
    /\ clearSeen = {}
    /\ clearSent = {}
    /\ clears = 0
    /\ answer = NoAnswer
    /\ unregAbsent = {}

\* The payload of a molecule as New() makes it: four empty lists.
NewPayload ==
    /\ atoms = << >>
    /\ bonds = << >>
    /\ rings = << >>
    /\ ringSystems = << >>

\* The state after the package's init(): no call of New() has been made.
Start(w) == StartAfter(w, 0) /\ NewPayload

\* The state after the package's init(), with the full workload.
Init ==
    Start([New |-> MaxMols, Senders |-> NumSenders, Send |-> MaxSends,
           Clear |-> MaxClears, Keep |-> FALSE])

\* The same state with the workload of one sender that sends enough to fill
\* a molecule's mailbox again after the molecule has taken a message.
FloodInit ==
    Start([New |-> MaxMols, Senders |-> 1, Send |-> ReqChanSize + 1,
           Clear |-> MaxClears, Keep |-> FALSE])

\* The state in which the counter stands at its largest value: one more
\* creation makes nextMolId.nextId++ wrap around.
WrapInit ==
    /\ StartAfter([New |-> MaxMols, Senders |-> 1, Send |-> 1,
                   Clear |-> MaxClears, Keep |-> FALSE], IdModulus - 1)
    /\ NewPayload

\* The state after init() with a workload whose callers of MoleculeWithId
\* keep the answer they get.
LookupInit ==
    Start([New |-> MaxMols, Senders |-> 1, Send |-> 1, Clear |-> MaxClears,
           Keep |-> TRUE])

\* A molecule whose payload the builders have filled, with no other call
\* under way: the methods on the payload are called on it.
PayloadInit ==
    /\ StartAfter([New |-> 0, Senders |-> 0, Send |-> 0, Clear |-> 0,
                   Keep |-> TRUE], 0)
    /\ atoms \in SeqUpTo([iId : AtomIds, nId : AtomIds], MaxAtoms)
    /\ bonds \in SeqUpTo([a1 : AtomIds, a2 : AtomIds, bType : BondTypes], MaxBonds)
    /\ rings \in SeqUpTo([isAro : BOOLEAN], MaxRings)
    /\ ringSystems \in SeqUpTo([isAro : BOOLEAN], MaxRingSystems)

\* ------------------------------------------------- New and nextMoleculeId

\* NewLock as it would be without nextMolId.mu.Lock().
NewLock_NoMutex(i) ==
    /\ ~crashed
    /\ pc[i] = "none"
    /\ i <= workload.New
    /\ \A j \in Mols : j < i => pc[j] # "none"
    /\ mu' = i
    /\ pc' = [pc EXCEPT ![i] = "locked"]
    /\ UNCHANGED << nextId, id, issued, mapVars, chanVars, clearVars >>

\* New() enters nextMoleculeId and takes nextMolId.mu.
NewLock(i) ==
    /\ ~crashed
    /\ pc[i] = "none"
    /\ i <= workload.New
    /\ \A j \in Mols : j < i => pc[j] # "none"
    /\ mu = 0
    /\ mu' = i
    /\ pc' = [pc EXCEPT ![i] = "locked"]
    /\ UNCHANGED << nextId, id, issued, mapVars, chanVars, clearVars >>

\* nextMolId.nextId++
NewInc(i) ==
    /\ ~crashed
    /\ pc[i] = "locked"
    /\ nextId' = (nextId + 1) % IdModulus
    /\ pc' = [pc EXCEPT ![i] = "incremented"]
    /\ UNCHANGED << mu, id, issued, mapVars, chanVars, clearVars >>

\* return nextMolId.nextId (and the deferred Unlock); New() stores the id,
\* makes the channel, starts run() as a goroutine and returns the molecule.
NewReturn(i) ==
    /\ ~crashed
    /\ pc[i] = "incremented"
    /\ id' = [id EXCEPT ![i] = nextId]
    /\ issued' = Append(issued, nextId)
    /\ mu' = 0
    /\ pc' = [pc EXCEPT ![i] = "start"]
    /\ UNCHANGED << nextId, mapVars, chanVars, clearVars >>

\* ------------------------------------------------------ writes of the map

\* A goroutine starts a write of the map.  Nothing keeps it from starting
\* while another write is under way: then both writes race.
WriteBegin(p) ==
    /\ writing' = writing \cup {p}
    /\ raced' = IF writing # {} THEN raced \cup writing \cup {p} ELSE raced
    /\ mapRaced' = (mapRaced \/ writing # {})

\* A goroutine ends its write, which would leave the map as m.  A write
\* that raced takes effect, is lost, or ends in the runtime's fatal error.
WriteEnd(p, m) ==
    /\ writing' = writing \ {p}
    /\ raced' = raced \ {p}
    /\ mapRaced' = mapRaced
    /\ \/ /\ allMolecules' = m
          /\ crashed' = crashed
       \/ /\ p \in raced
          /\ allMolecules' = allMolecules
          /\ crashed' = crashed
       \/ /\ p \in raced
          /\ allMolecules' = allMolecules
          /\ crashed' = TRUE

\* ------------------------------------------------------------------- run

\* run(): AllMolecules.allMolecules[m.id] = m
RegisterBegin(i) ==
    /\ ~crashed
    /\ pc[i] = "start"
    /\ WriteBegin(i)
    /\ pc' = [pc EXCEPT ![i] = "registering"]
    /\ UNCHANGED << allMolecules, crashed, newVars, chanVars, clearVars >>

RegisterEnd(i) ==
    /\ ~crashed
    /\ pc[i] = "registering"
    /\ WriteEnd(i, MapPut(allMolecules, id[i], i))
    /\ pc' = [pc EXCEPT ![i] = "loop"]
    /\ UNCHANGED << newVars, chanVars, clearVars >>

\* RecvExit as it would be if the ReqExit case did not clear alive.
RecvExit_StaysAlive(i) ==
    /\ ~crashed
    /\ pc[i] = "loop"
    /\ inChannel[i] # << >>
    /\ Head(inChannel[i]).Request = ReqExit
    /\ inChannel' = [inChannel EXCEPT ![i] = Tail(@)]
    /\ UNCHANGED << pc, processed, sentLog, sent, newVars, mapVars, clearVars >>

\* run(): case msg := <-m.inChannel with msg.Request == ReqExit:
\* alive = false, and the loop breaks on its next turn.
RecvExit(i) ==
    /\ ~crashed
    /\ pc[i] = "loop"
    /\ inChannel[i] # << >>
    /\ Head(inChannel[i]).Request = ReqExit
    /\ inChannel' = [inChannel EXCEPT ![i] = Tail(@)]
    /\ pc' = [pc EXCEPT ![i] = "stopping"]
    /\ UNCHANGED << processed, sentLog, sent, newVars, mapVars, clearVars >>

\* RecvOther as it would be if the loop took the newest queued message.
RecvOther_Newest(i) ==
    /\ ~crashed
    /\ pc[i] = "loop"
    /\ inChannel[i] # << >>
    /\ LET q == inChannel[i]
           n == Len(inChannel[i])
       IN  /\ q[n].Request # ReqExit
           /\ inChannel' = [inChannel EXCEPT ![i] = SubSeq(q, 1, n - 1)]
           /\ processed' = [processed EXCEPT ![i] = Append(@, q[n])]
    /\ UNCHANGED << pc, sentLog, sent, newVars, mapVars, clearVars >>

\* run(): case msg := <-m.inChannel, default branch: m.processInMessage(msg)
RecvOther(i) ==
    /\ ~crashed
    /\ pc[i] = "loop"
    /\ inChannel[i] # << >>
    /\ Head(inChannel[i]).Request # ReqExit
    /\ inChannel' = [inChannel EXCEPT ![i] = Tail(@)]
    /\ processed' = [processed EXCEPT ![i] = Append(@, Head(inChannel[i]))]
    /\ UNCHANGED << pc, sentLog, sent, newVars, mapVars, clearVars >>

\* run(): the deferred delete(AllMolecules.allMolecules, m.id)
UnregisterBegin(i) ==
    /\ ~crashed
    /\ pc[i] = "stopping"
    /\ WriteBegin(i)
    /\ pc' = [pc EXCEPT ![i] = "unregistering"]
    /\ unregAbsent' = IF id[i] \in DOMAIN allMolecules
                      THEN unregAbsent
                      ELSE unregAbsent \cup {i}
    /\ UNCHANGED << allMolecules, crashed, newVars, chanVars, clearPc, clearCur,
                    clearStart, clearSeen, clearSent, clears, workload, answer,
                    payloadVars >>

UnregisterEnd(i) ==
    /\ ~crashed
    /\ pc[i] = "unregistering"
    /\ WriteEnd(i, MapDelete(allMolecules, id[i]))
    /\ pc' = [pc EXCEPT ![i] = "done"]
    /\ unregAbsent' = unregAbsent \ {i}
    /\ UNCHANGED << newVars, chanVars, clearPc, clearCur, clearStart, clearSeen,
                    clearSent, clears, workload, answer, payloadVars >>

\* ---------------------------------------------------------------- senders

\* Send as it would be if a send to a full channel did not block.
Send_Overflow(s, i, kind) ==
    /\ ~crashed
    /\ pc[i] \notin {"none", "locked", "incremented"}
    /\ s <= workload.Senders
    /\ TotalSent < workload.Send
    /\ LET msg == [Request |-> kind, from |-> s, seq |-> sent[s] + 1]
       IN  /\ inChannel' = [inChannel EXCEPT ![i] = Append(@, msg)]
           /\ sentLog' = [sentLog EXCEPT ![i] = Append(@, msg)]
    /\ sent' = [sent EXCEPT ![s] = @ + 1]
    /\ UNCHANGED << processed, pc, newVars, mapVars, clearVars >>

\* An external goroutine sends a message on mol.InChannel(); the send
\* blocks while the channel is full.
Send(s, i, kind) ==
    /\ ~crashed
    /\ pc[i] \notin {"none", "locked", "incremented"}
    /\ s <= workload.Senders
    /\ TotalSent < workload.Send
    /\ Len(inChannel[i]) < ReqChanSize
    /\ LET msg == [Request |-> kind, from |-> s, seq |-> sent[s] + 1]
       IN  /\ inChannel' = [inChannel EXCEPT ![i] = Append(@, msg)]
           /\ sentLog' = [sentLog EXCEPT ![i] = Append(@, msg)]
    /\ sent' = [sent EXCEPT ![s] = @ + 1]
    /\ UNCHANGED << processed, pc, newVars, mapVars, clearVars >>

\* ------------------------------------------------------------------ Clear

\* Clear() is called and its range over the map begins: over an empty map
\* the loop ends at once and Clear() returns, otherwise the range produces
\* its first entry.  A range that begins while a write is under way may end
\* in the runtime's fatal error.
ClearStart ==
    /\ ~crashed
    /\ clearPc = "idle"
    /\ clears < workload.Clear
    /\ clears' = clears + 1
    /\ clearStart' = DOMAIN allMolecules
    /\ clearSent' = {}
    /\ \/ /\ DOMAIN allMolecules = {}
          /\ clearSeen' = {}
          /\ clearPc' = "idle"
          /\ UNCHANGED << clearCur, crashed >>
       \/ /\ \E k \in DOMAIN allMolecules :
                /\ clearCur' = [id |-> k, mol |-> allMolecules[k]]
                /\ clearSeen' = {k}
          /\ clearPc' = "send"
          /\ crashed' = crashed
       \/ /\ writing # {}
          /\ crashed' = TRUE
          /\ clearSeen' = {}
          /\ clearPc' = "range"
          /\ UNCHANGED clearCur
    /\ UNCHANGED << otherVars, allMolecules, writing, raced, mapRaced, pc, newVars, chanVars >>

\* The range goes on after an iteration of the loop body: it produces an
\* entry of the map as it is now that it has not produced before.  An
\* iteration step while a write is under way may end in the runtime's fatal
\* error.
ClearNext ==
    /\ ~crashed
    /\ clearPc = "range"
    /\ \/ /\ \E k \in (DOMAIN allMolecules) \ clearSeen :
                /\ clearCur' = [id |-> k, mol |-> allMolecules[k]]
                /\ clearSeen' = clearSeen \cup {k}
          /\ clearPc' = "send"
          /\ crashed' = crashed
       \/ /\ writing # {}
          /\ crashed' = TRUE
          /\ UNCHANGED << clearPc, clearCur, clearSeen >>
    /\ UNCHANGED << clearStart, clearSent, clears, otherVars, allMolecules, writing, raced, mapRaced,
                    pc, newVars, chanVars >>

\* mol.InChannel() <- InMessage{ReqExit, 0, nil, nil}: blocks while full.
ClearSend ==
    /\ ~crashed
    /\ clearPc = "send"
    /\ Len(inChannel[clearCur.mol]) < ReqChanSize
    /\ inChannel' = [inChannel EXCEPT ![clearCur.mol] = Append(@, ExitMessage)]
    /\ sentLog' = [sentLog EXCEPT ![clearCur.mol] = Append(@, ExitMessage)]
    /\ clearSent' = clearSent \cup {clearCur.mol}
    /\ clearPc' = "delete"
    /\ UNCHANGED << clearCur, clearStart, clearSeen, clears, otherVars, processed, sent,
                    pc, newVars, mapVars >>

\* delete(ms.allMolecules, id)
ClearDeleteBegin ==
    /\ ~crashed
    /\ clearPc = "delete"
    /\ WriteBegin(ClearProc)
    /\ clearPc' = "deleting"
    /\ UNCHANGED << clearCur, clearStart, clearSeen, clearSent, clears, otherVars,
                    allMolecules, crashed, pc, newVars, chanVars >>

ClearDeleteEnd ==
    /\ ~crashed
    /\ clearPc = "deleting"
    /\ WriteEnd(ClearProc, MapDelete(allMolecules, clearCur.id))
    /\ clearPc' = "range"
    /\ UNCHANGED << clearCur, clearStart, clearSeen, clearSent, clears, otherVars,
                    pc, newVars, chanVars >>

\* The range ends: every entry that was in the map when the range began and
\* is still there has been produced (an entry created during the range may
\* be skipped, one removed before it was reached is not produced).
ClearReturn ==
    /\ ~crashed
    /\ clearPc = "range"
    /\ ((DOMAIN allMolecules) \cap clearStart) \subseteq clearSeen
    /\ clearPc' = "idle"
    /\ UNCHANGED << clearCur, clearStart, clearSeen, clearSent, clears, otherVars,
                    pc, newVars, mapVars, chanVars >>

\* ----------------------------------------------------------------- lookup

\* An external goroutine calls AllMolecules.MoleculeWithId(k): a read of
\* the map, whose answer goes to the caller.  A read while a write is under
\* way may end in the runtime's fatal error.
Lookup(k) ==
    /\ ~crashed
    /\ \/ /\ MoleculeWithId(k) \in {Nil} \cup Mols
          /\ crashed' = crashed
          /\ answer' = IF workload.Keep
                       THEN [op |-> "MoleculeWithId", arg |-> << k >>,
                             val |-> MoleculeWithId(k), fatal |-> FALSE]
                       ELSE answer
       \/ /\ writing # {}
          /\ crashed' = TRUE
          /\ answer' = IF workload.Keep
                       THEN [op |-> "MoleculeWithId", arg |-> << k >>,
                             val |-> Nil, fatal |-> TRUE]
                       ELSE answer
    /\ UNCHANGED << allMolecules, writing, raced, mapRaced, pc, newVars, chanVars,
                    clearPc, clearCur, clearStart, clearSeen, clearSent, clears,
                    workload, unregAbsent, payloadVars >>

\* ---------------------------------------------------------------- payload

\* The methods on the payload are loops over a list that answer at the first
\* match; a pointer to an element is modelled by the element's position in
\* the list, and nil by 0.

RECURSIVE atomWithIidFrom(_, _)
atomWithIidFrom(x, n) ==
    IF n > Len(atoms) THEN 0
    ELSE IF atoms[n].iId = x THEN n
    ELSE atomWithIidFrom(x, n + 1)

\* atomWithIid answers the atom for the given input ID, or nil.
atomWithIid(x) == atomWithIidFrom(x, 1)

RECURSIVE atomWithNidFrom(_, _)
atomWithNidFrom(x, n) ==
    IF n > Len(atoms) THEN 0
    ELSE IF atoms[n].nId = x THEN n
    ELSE atomWithNidFrom(x, n + 1)

\* atomWithNid as it would be if it compared the input ID.
atomWithNid_ByIid(x) == atomWithIidFrom(x, 1)

\* atomWithNid answers the atom for the given normalised ID, or nil.
atomWithNid(x) == atomWithNidFrom(x, 1)

RECURSIVE bondBetweenFrom(_, _, _)
bondBetweenFrom(a1id, a2id, n) ==
    IF n > Len(bonds) THEN 0
    ELSE IF \/ (bonds[n].a1 = a1id /\ bonds[n].a2 = a2id)
            \/ (bonds[n].a2 = a1id /\ bonds[n].a1 = a2id)
         THEN n
    ELSE bondBetweenFrom(a1id, a2id, n + 1)

\* bondBetween as it would be if it matched one orientation only.
bondBetween_OneWay(a1id, a2id) ==
    LET Match(n) == bonds[n].a1 = a1id /\ bonds[n].a2 = a2id
    IN  IF \E n \in 1 .. Len(bonds) : Match(n)
        THEN CHOOSE n \in 1 .. Len(bonds) :
                 Match(n) /\ \A m \in 1 .. (n - 1) : ~Match(m)
        ELSE 0

\* bondBetween answers the bond between the two given atoms, or nil.
bondBetween(a1id, a2id) == bondBetweenFrom(a1id, a2id, 1)

RECURSIVE bondCountFrom(_, _, _)
bondCountFrom(typ, n, c) ==
    IF n > Len(bonds) THEN c
    ELSE bondCountFrom(typ, n + 1, IF bonds[n].bType = typ THEN c + 1 ELSE c)

\* bondCount as it would be if its loop ended at the first match.
bondCount_FirstOnly(typ) ==
    IF \E n \in 1 .. Len(bonds) : bonds[n].bType = typ THEN 1 ELSE 0

\* bondCount answers the number of bonds of the given type.
bondCount(typ) == bondCountFrom(typ, 1, 0)

singleBondCount == bondCount("BondTypeSingle")

doubleBondCount == bondCount("BondTypeDouble")

tripleBondCount == bondCount("BondTypeTriple")

RECURSIVE aromaticCountFrom(_, _, _)
aromaticCountFrom(list, n, c) ==
    IF n > Len(list) THEN c
    ELSE aromaticCountFrom(list, n + 1, IF list[n].isAro THEN c + 1 ELSE c)

\* aromaticRingCount answers the number of aromatic rings.
aromaticRingCount == aromaticCountFrom(rings, 1, 0)

\* aromaticRingSystemCount answers the number of aromatic ring systems.
aromaticRingSystemCount == aromaticCountFrom(ringSystems, 1, 0)

\* A call of a method on the payload; the caller keeps the answer.  A run
\* makes one such call.
Query(op, arg, val) ==
    /\ ~crashed
    /\ workload.Keep
    /\ answer = NoAnswer
    /\ answer' = [op |-> op, arg |-> arg, val |-> val, fatal |-> FALSE]
    /\ UNCHANGED << newVars, mapVars, chanVars, pc, clearPc, clearCur, clearStart,
                    clearSeen, clearSent, clears, workload, unregAbsent,
                    payloadVars >>

AtomWithIid(x) == Query("atomWithIid", << x >>, atomWithIid(x))

AtomWithNid(x) == Query("atomWithNid", << x >>, atomWithNid(x))

BondBetween(a1id, a2id) ==
    Query("bondBetween", << a1id, a2id >>, bondBetween(a1id, a2id))

BondCount(typ) == Query("bondCount", << typ >>, bondCount(typ))

SingleBondCount == Query("singleBondCount", << >>, singleBondCount)

DoubleBondCount == Query("doubleBondCount", << >>, doubleBondCount)

TripleBondCount == Query("tripleBondCount", << >>, tripleBondCount)

AromaticRingCount == Query("aromaticRingCount", << >>, aromaticRingCount)

AromaticRingSystemCount ==
    Query("aromaticRingSystemCount", << >>, aromaticRingSystemCount)

\* ------------------------------------------------------------------- Next

NewStep(i) == NewInc(i) \/ NewReturn(i)

RunStep(i) ==
    \/ RegisterBegin(i)
    \/ RegisterEnd(i)
    \/ RecvExit(i)
    \/ RecvOther(i)
    \/ UnregisterBegin(i)
    \/ UnregisterEnd(i)

ClearStep ==
    \/ ClearNext
    \/ ClearDeleteBegin
    \/ ClearDeleteEnd
    \/ ClearReturn

Next ==
    \/ \E i \in Mols : NewLock(i)
    \/ \E i \in Mols : NewInc(i)
    \/ \E i \in Mols : NewReturn(i)
    \/ \E i \in Mols : RegisterBegin(i)
    \/ \E i \in Mols : RegisterEnd(i)
    \/ \E i \in Mols : RecvExit(i)
    \/ \E i \in Mols : RecvOther(i)
    \/ \E i \in Mols : UnregisterBegin(i)
    \/ \E i \in Mols : UnregisterEnd(i)
    \/ \E s \in Senders, i \in Mols, kind \in {ReqExit, ReqOther} : Send(s, i, kind)
    \/ ClearStart
    \/ ClearNext
    \/ ClearSend
    \/ ClearDeleteBegin
    \/ ClearDeleteEnd
    \/ ClearReturn
    \/ \E k \in LookupKeys : Lookup(k)

Spec == Init /\ [][Next]_vars

FloodSpec == FloodInit /\ [][Next]_vars

WrapSpec == WrapInit /\ [][Next]_vars

LookupSpec == LookupInit /\ [][Next]_vars

\* The calls of the methods on a molecule's payload.
PayloadNext ==
    \/ \E x \in QueryIds : AtomWithIid(x)
    \/ \E x \in QueryIds : AtomWithNid(x)
    \/ \E a1id, a2id \in QueryIds : BondBetween(a1id, a2id)
    \/ \E typ \in BondTypes : BondCount(typ)
    \/ SingleBondCount
    \/ DoubleBondCount
    \/ TripleBondCount
    \/ AromaticRingCount
    \/ AromaticRingSystemCount

PayloadSpec == PayloadInit /\ [][PayloadNext]_vars

\* The scheduler runs every runnable goroutine: a New() that holds the lock,
\* a molecule's run() and a Clear() under way each take their next step when
\* they can.  A goroutine blocked in a channel send is queued on the channel
\* and completes once there is room.  Calls from outside (New, Clear,
\* MoleculeWithId, sends) are under no obligation to happen.
Fairness ==
    /\ \A i \in Mols : WF_vars(NewStep(i))
    /\ \A i \in Mols : WF_vars(RunStep(i))
    /\ WF_vars(ClearStep)
    /\ SF_vars(ClearSend)

FairSpec == Spec /\ Fairness

FairFloodSpec == FloodSpec /\ Fairness

\* ------------------------------------------------------------- vocabulary

\* New() has returned the molecule of slot i.
Created(i) == pc[i] \notin {"none", "locked", "incremented"}

\* An exit request has been sent to molecule i (by a sender or by Clear).
ExitSent(i) == HasExit(sentLog[i])

\* Molecule i's loop has received an exit request.
ExitReceived(i) == HasExit(Received(i))

\* Molecule i is a key of the cache and the cache answers its handle.
Registered(i) == id[i] \in DOMAIN allMolecules /\ allMolecules[id[i]] = i

\* ------------------------------------------------------------------ claims

\* C1: the identifiers that concurrent calls of New() return are pairwise
\* distinct, and strictly increasing in the order in which the calls
\* obtained them from nextMoleculeId.
C1_IdsDistinctAndIncreasing ==
    /\ \A m, n \in 1 .. Len(issued) : m < n => issued[m] < issued[n]
    /\ \A i, j \in Mols : (i # j /\ Created(i) /\ Created(j)) => id[i] # id[j]

\* C1 witness: every call of New() has returned its identifier.
C1_Witness == Len(issued) = MaxMols /\ \A i \in Mols : Created(i)

\* C2: after New() has returned a molecule and before any exit request
\* has been sent to it, MoleculeWithId on its id answers its handle.
C2_LookupAfterNew ==
    \A i \in Mols : (Created(i) /\ ~ExitSent(i)) => MoleculeWithId(id[i]) = i

\* C3: accesses to the cache's map are serialised (no two goroutines are
\* inside a write of the map at once), and a molecule that has registered
\* and that neither itself nor Clear() has unregistered is in the map.
C3_MapAccessSerialised ==
    /\ Cardinality(writing) <= 1
    /\ \A i \in Mols :
          (pc[i] \in {"loop", "stopping"} /\ id[i] \notin clearSeen) => Registered(i)

\* C4: once Clear() has been invoked, eventually every molecule that was
\* registered at the call has received an exit request and none of them is
\* left in the map (molecules registered after the call, a run in which two
\* writes of the map raced and a run the runtime stopped with a fatal error
\* are not counted against the claim).
C4_ClearEmptiesRegistry ==
    [](clearPc # "idle" =>
         <>(\/ crashed
            \/ mapRaced
            \/ /\ \A i \in Mols : id[i] \in clearStart => ExitReceived(i)
               /\ (DOMAIN allMolecules) \cap clearStart = {}))

\* C5: a call of Clear() that has returned has sent an exit request to
\* exactly the molecules that were registered when it was called.
C5_ClearSnapshot ==
    (clearPc = "idle" /\ clears > 0 /\ ~crashed) =>
        {id[i] : i \in clearSent} = clearStart

\* C6: after an exit request has been sent to a molecule, eventually
\* MoleculeWithId on its id answers nil and goes on answering nil forever
\* (a run the runtime stopped with a fatal error is not counted against
\* the claim).
C6_ExitLeadsToAbsent ==
    \A i \in Mols :
        [](ExitSent(i) => <>[](crashed \/ MoleculeWithId(id[i]) = Nil))

\* No creation, termination or Clear() is in flight.
Quiescent ==
    /\ \A i \in Mols : pc[i] \in {"none", "loop", "done"}
    /\ \A i \in Mols : ~HasExit(inChannel[i])
    /\ clearPc = "idle"
    /\ writing = {}

\* C7: in every quiescent state the keys of the map are exactly the ids of
\* the molecules whose loop has started and has not exited.
C7_QuiescentRegistry ==
    Quiescent => DOMAIN allMolecules = {id[i] : i \in {j \in Mols : pc[j] = "loop"}}

\* C8: once a molecule's loop has received an exit request it receives no
\* further message and processInMessage is not called for it again.
C8_NothingAfterExit ==
    [][\A i \in Mols :
          ExitReceived(i) =>
              /\ Len(sentLog'[i]) - Len(inChannel'[i])
                    = Len(sentLog[i]) - Len(inChannel[i])
              /\ processed'[i] = processed[i]]_vars

\* C8 witness: a molecule has received an exit request and a non-exit
\* message is queued behind it.
C8_Witness ==
    \E i \in Mols :
        /\ ExitReceived(i)
        /\ \E n \in 1 .. Len(inChannel[i]) : inChannel[i][n].Request = ReqOther

\* The messages enqueued for molecule i before the first exit request.
SentBeforeExit(i) ==
    LET q == sentLog[i]
        first == IF HasExit(q)
                 THEN CHOOSE n \in 1 .. Len(q) :
                          /\ q[n].Request = ReqExit
                          /\ \A m \in 1 .. (n - 1) : q[m].Request # ReqExit
                 ELSE Len(q) + 1
    IN  SubSeq(q, 1, first - 1)

Elements(q) == {q[n] : n \in 1 .. Len(q)}

\* C9: no message is processed twice; when a molecule has received the exit
\* request, every non-exit message sent to it before that request has been
\* processed exactly once; and when its loop has then returned (and no
\* write of the map is under way), the molecule is absent from the map.
C9_ExactlyOnceThenGone ==
    \A i \in Mols :
        /\ \A m, n \in 1 .. Len(processed[i]) :
              m # n => processed[i][m] # processed[i][n]
        /\ ExitReceived(i) =>
              /\ Elements(processed[i]) = Elements(SentBeforeExit(i))
              /\ Len(processed[i]) = Len(SentBeforeExit(i))
        /\ (pc[i] = "done" /\ writing = {}) =>
              (crashed \/ MoleculeWithId(id[i]) = Nil)

\* C10: a molecule processes the messages of one sender in the order in
\* which that sender sent them.
C10_SenderOrder ==
    \A i \in Mols :
        \A m, n \in 1 .. Len(processed[i]) :
            (m < n /\ processed[i][m].from = processed[i][n].from)
                => processed[i][m].seq < processed[i][n].seq

\* C10 witness: a molecule has processed two messages of the same sender.
C10_Witness ==
    \E i \in Mols :
        \E m, n \in 1 .. Len(processed[i]) :
            m < n /\ processed[i][m].from = processed[i][n].from

\* The last n elements of the sequence q.
Last(q, n) == SubSeq(q, Len(q) - n + 1, Len(q))

\* C11: a mailbox never holds more than ReqChanSize messages; what it holds
\* is exactly the messages enqueued and not yet received, in order (none is
\* discarded); and a send that has to wait (Clear's, whose position the
\* model keeps) ends in no other way than by enqueuing its message, which
\* it does only when the mailbox is below capacity.
C11_MailboxBoundedLossFree ==
    /\ [](\A i \in Mols :
            /\ Len(inChannel[i]) <= ReqChanSize
            /\ Len(inChannel[i]) <= Len(sentLog[i])
            /\ inChannel[i] = Last(sentLog[i], Len(inChannel[i])))
    /\ [][\A i \in Mols :
            /\ Len(sentLog'[i]) > Len(sentLog[i]) =>
                  /\ Len(inChannel[i]) < ReqChanSize
                  /\ inChannel'[i] = Append(inChannel[i], sentLog'[i][Len(sentLog'[i])])
            /\ (clearPc = "send" /\ clearPc' # "send" /\ clearCur.mol = i) =>
                  /\ Len(inChannel[i]) < ReqChanSize
                  /\ inChannel'[i] = Append(inChannel[i], ExitMessage)]_vars

\* C11 witness: Clear() waits in its send because the mailbox of a molecule
\* whose loop is receiving is at capacity with messages of the senders.
C11_Witness ==
    /\ clearPc = "send"
    /\ pc[clearCur.mol] = "loop"
    /\ Len(inChannel[clearCur.mol]) = ReqChanSize
    /\ \A n \in 1 .. ReqChanSize : inChannel[clearCur.mol][n].from # ClearProc

\* C12: no call of nextMoleculeId returns a value that an earlier call
\* returned, however many calls there have been.
C12_IdsNeverReused ==
    \A m, n \in 1 .. Len(issued) : m # n => issued[m] # issued[n]

\* C13: when a molecule's deferred unregister began after Clear() had
\* removed the molecule's entry from the map, its completion leaves the map
\* as it was and the molecule terminates normally (run() returns and the
\* runtime raises no fatal error).
C13_UnregisterAbsentNoOp ==
    [][\A i \in Mols :
          (/\ pc[i] = "unregistering"
           /\ pc'[i] # "unregistering"
           /\ i \in unregAbsent
           /\ id[i] \in clearSeen) =>
              /\ allMolecules' = allMolecules
              /\ pc'[i] = "done"
              /\ ~crashed']_vars

\* C14: a call of MoleculeWithId(k) answers the handle stored under k if k
\* is a key of the map and nil otherwise, raises no fatal error, and leaves
\* the map as it was.
C14_MoleculeWithIdContract ==
    [][(answer' # answer /\ answer'.op = "MoleculeWithId") =>
          LET k == answer'.arg[1]
          IN  /\ ~answer'.fatal
              /\ k \in DOMAIN allMolecules => answer'.val = allMolecules[k]
              /\ k \notin DOMAIN allMolecules => answer'.val = Nil
              /\ allMolecules' = allMolecules]_vars

\* C15: bondCount(t) (and the single, double and triple bond counts)
\* answers the number of bonds whose type is t, aromaticRingCount and
\* aromaticRingSystemCount answer the number of rings and of ring systems
\* whose aromatic flag is set, and no step changes the collections.
C15_CategoryCounts ==
    /\ [](LET OfType(t) == Cardinality({n \in 1 .. Len(bonds) : bonds[n].bType = t})
              Aromatic(list) == Cardinality({n \in 1 .. Len(list) : list[n].isAro})
          IN  /\ answer.op = "bondCount" => answer.val = OfType(answer.arg[1])
              /\ answer.op = "singleBondCount" => answer.val = OfType("BondTypeSingle")
              /\ answer.op = "doubleBondCount" => answer.val = OfType("BondTypeDouble")
              /\ answer.op = "tripleBondCount" => answer.val = OfType("BondTypeTriple")
              /\ answer.op = "aromaticRingCount" =>
                    answer.val = Aromatic(rings)
              /\ answer.op = "aromaticRingSystemCount" =>
                    answer.val = Aromatic(ringSystems))
    /\ [][payloadVars' = payloadVars]_vars

\* C15 witness: bondCount has answered 2 for a list of two bonds, or
\* aromaticRingCount has answered 1 for a list of two rings.
C15_Witness ==
    \/ answer.op = "bondCount" /\ answer.val = MaxBonds
    \/ answer.op = "aromaticRingCount" /\ answer.val = 1 /\ Len(rings) = 2

\* C16: atomWithIid(x) answers an atom whose input id is x if there is one
\* and nil otherwise, and atomWithNid(x) answers an atom whose normalised
\* id is x if there is one and nil otherwise (so neither answers an atom
\* for a value that matches only its id of the other kind).
C16_AtomLookupsIndependent ==
    LET x == answer.arg[1]
        r == answer.val
    IN  /\ answer.op = "atomWithIid" =>
              IF \E n \in 1 .. Len(atoms) : atoms[n].iId = x
              THEN r \in 1 .. Len(atoms) /\ atoms[r].iId = x
              ELSE r = 0
        /\ answer.op = "atomWithNid" =>
              IF \E n \in 1 .. Len(atoms) : atoms[n].nId = x
              THEN r \in 1 .. Len(atoms) /\ atoms[r].nId = x
              ELSE r = 0

\* C16 witness: atomWithNid was called with a value that is the input id of
\* an atom and the normalised id of none, and answered nil.
C16_Witness ==
    /\ answer.op = "atomWithNid"
    /\ answer.val = 0
    /\ \E n \in 1 .. Len(atoms) : atoms[n].iId = answer.arg[1]

\* C20: bondBetween(a, b) answers nil exactly when bondBetween(b, a)
\* answers nil, and a bond it answers connects the atoms with input ids a
\* and b, in one orientation or the other.
C20_BondBetweenSymmetric ==
    answer.op = "bondBetween" =>
        LET a == answer.arg[1]
            b == answer.arg[2]
            r == answer.val
        IN  /\ (r = 0) <=> (bondBetween(b, a) = 0)
            /\ r # 0 =>
                  /\ r \in 1 .. Len(bonds)
                  /\ \/ bonds[r].a1 = a /\ bonds[r].a2 = b
                     \/ bonds[r].a1 = b /\ bonds[r].a2 = a

\* C20 witness: bondBetween(a, b) has answered a bond that is stored from
\* b to a, with a and b different.
C20_Witness ==
    /\ answer.op = "bondBetween"
    /\ answer.val # 0
    /\ answer.arg[1] # answer.arg[2]
    /\ bonds[answer.val].a1 = answer.arg[2]
    /\ bonds[answer.val].a2 = answer.arg[1]

\* Molecule i's run() has put the molecule in the map: it is there, or
\* Clear() has produced its entry (and removes it).
HasRegistered(i) == Registered(i) \/ id[i] \in clearSeen

\* C17: a molecule receives a message only in its loop and after it has
\* registered; its loop has ended only if it has received an exit request;
\* processing a non-exit message leaves it in its loop and leaves the map
\* as it was; and a molecule whose run() has returned stays so, is not put
\* in the map again and processes nothing more.
C17_LifecycleOrder ==
    /\ [](\A i \in Mols :
            pc[i] \in {"stopping", "unregistering", "done"} => ExitReceived(i))
    /\ [][\A i \in Mols :
            /\ Len(Received(i))' > Len(Received(i)) =>
                  pc[i] = "loop" /\ HasRegistered(i)
            /\ processed'[i] # processed[i] =>
                  pc'[i] = "loop" /\ allMolecules' = allMolecules
            /\ pc[i] = "done" =>
                  /\ pc'[i] = "done"
                  /\ processed'[i] = processed[i]
                  /\ MoleculeWithId(id[i]) = Nil => MoleculeWithId(id[i])' = Nil]_vars

\* C18: every call of Clear() eventually returns (a run the runtime stopped
\* with a fatal error is not counted against the claim).
C18_ClearReturns == [](clearPc # "idle" => <>(clearPc = "idle" \/ crashed))

\* C19: every key of the map is an id the allocator has issued (not zero
\* and not greater than the counter), the handle stored under a key is the
\* molecule whose own id is the key, and no key is the id of a molecule
\* whose run() has returned.
C19_RegistryWellFormed ==
    \A k \in DOMAIN allMolecules :
        /\ k # 0
        /\ k <= nextId
        /\ allMolecules[k] \in Mols
        /\ id[allMolecules[k]] = k
        /\ \A i \in Mols : pc[i] = "done" => id[i] # k

=============================================================================
